---- MODULE Spec2Model ----
(***************************************************************************)
(* Min-Conflicts local search for N-Queens                                 *)
(* (src/models/nqueens_local_search.py): the MinConflictsBoard with its    *)
(* two frequency arrays, swap_queens, get_best_swap and the                *)
(* restart/iteration loop of solve_min_conflicts.                          *)
(*                                                                         *)
(* Rows, columns and array indices are 0-based as in the source: a list of *)
(* length k is a function with domain 0..k-1.  The random permutation and  *)
(* random.choice are nondeterministic choices.                             *)
(***************************************************************************)
EXTENDS Integers, Sequences, FiniteSets

\* Bounds of the model: the largest board size and the largest budgets tried.
MaxN == 4
MaxIterations == 2
MaxRestarts == 2

VARIABLES
    n,                  \* board size (argument n / self.n)
    max_iterations,     \* argument of solve_min_conflicts
    max_restarts,       \* argument of solve_min_conflicts
    board,              \* self.board
    diag_conflicts,     \* self.diag_conflicts
    antidiag_conflicts, \* self.antidiag_conflicts
    restart,            \* loop variable of the outer for
    iteration,          \* loop variable of the inner for
    pc,                 \* position in solve_min_conflicts / get_best_swap
    row,                \* selected queen (solve_min_conflicts), argument of get_best_swap
    other_row,          \* loop variable of get_best_swap
    other_col,          \* local of get_best_swap
    current_col,        \* local of get_best_swap
    min_conflicts,      \* local of get_best_swap
    best_swaps,         \* local of get_best_swap
    result,             \* the returned tuple, once pc = "done"
    calls,              \* history: the last swap_queens calls on this board
    loop_iterations     \* history: bodies of the inner loop entered so far

vars == <<n, max_iterations, max_restarts, board, diag_conflicts,
          antidiag_conflicts, restart, iteration, pc, row, other_row,
          other_col, current_col, min_conflicts, best_swaps, result, calls,
          loop_iterations>>

----------------------------------------------------------------------------
\* Helpers

Abs(x) == IF x < 0 THEN -x ELSE x

Max(a, b) == IF a > b THEN a ELSE b

\* range(k)
Rows(k) == 0 .. (k - 1)

\* Indices of a list [0] * (2 * k - 1); empty when 2k-1 <= 0.
Indices(k) == 0 .. (2 * k - 2)

\* Python list.append on a 0-based list.
Append0(list, x) ==
    [i \in 0 .. Cardinality(DOMAIN list) |->
        IF i \in DOMAIN list THEN list[i] ELSE x]

EmptyList == [i \in {} |-> 0]

\* float('inf'): larger than any sum of two conflicts_at values.
Infinity == 4 * (MaxN + 2)

\* None / a returned board, as a set of at most one board.
None == {}
Some(b) == {b}

\* np.random.permutation(k): every permutation of 0..k-1 is possible.
permutation ==
    [k \in 0 .. MaxN |->
        {p \in [Rows(k) -> Rows(k)] : \A i, j \in Rows(k) : p[i] = p[j] => i = j}]

----------------------------------------------------------------------------
\* class MinConflictsBoard

\* The state of a board object as one value.
BoardState(b, d, a) == [board |-> b, diag_conflicts |-> d, antidiag_conflicts |-> a]

Self == BoardState(board, diag_conflicts, antidiag_conflicts)

Incr(f, i) == [f EXCEPT ![i] = @ + 1]
Decr(f, i) == [f EXCEPT ![i] = @ - 1]

\* The loop of __init__ from row r on: one += on each array per row.
RECURSIVE InitArrays(_, _, _)
InitArrays(k, S, r) ==
    IF r >= k THEN S
    ELSE LET col == S.board[r]
         IN  InitArrays(k,
                 BoardState(S.board,
                            Incr(S.diag_conflicts, r - col + k - 1),
                            Incr(S.antidiag_conflicts, r + col)),
                 r + 1)

\* MinConflictsBoard.__init__ with the permutation drawn.
MinConflictsBoard(k, perm) ==
    InitArrays(k,
        BoardState(perm, [i \in Indices(k) |-> 0], [i \in Indices(k) |-> 0]),
        0)

\* conflicts_at reading the diagonal array only.
conflicts_at_diag_only(S, r, col) ==
    Max(0, S.diag_conflicts[r - col + n - 1] - 1)

\* conflicts_at subtracting one too many.
conflicts_at_minus_three(S, r, col) ==
    Max(0, S.diag_conflicts[r - col + n - 1] + S.antidiag_conflicts[r + col] - 3)

\* MinConflictsBoard.conflicts_at
conflicts_at(S, r, col) ==
    LET diag_idx == r - col + n - 1
        antidiag_idx == r + col
    IN  Max(0, S.diag_conflicts[diag_idx] + S.antidiag_conflicts[antidiag_idx] - 2)

\* The loop of total_conflicts with the test count > 2 instead of count > 1.
RECURSIVE SumPairs_above_two(_, _, _)
SumPairs_above_two(arr, i, total) ==
    IF i \notin DOMAIN arr THEN total
    ELSE SumPairs_above_two(arr, i + 1,
             IF arr[i] > 2 THEN total + (arr[i] * (arr[i] - 1)) \div 2 ELSE total)

\* One "for count in array" loop of total_conflicts, from index i on.
RECURSIVE SumPairs(_, _, _)
SumPairs(arr, i, total) ==
    IF i \notin DOMAIN arr THEN total
    ELSE SumPairs(arr, i + 1,
             IF arr[i] > 1 THEN total + (arr[i] * (arr[i] - 1)) \div 2 ELSE total)

\* total_conflicts counting count - 1 per bucket instead of the pairs
\* count * (count - 1) // 2.
RECURSIVE SumExtra(_, _, _)
SumExtra(arr, i, total) ==
    IF i \notin DOMAIN arr THEN total
    ELSE SumExtra(arr, i + 1, IF arr[i] > 1 THEN total + (arr[i] - 1) ELSE total)

total_conflicts_linear(S) ==
    SumExtra(S.antidiag_conflicts, 0, SumExtra(S.diag_conflicts, 0, 0))

\* total_conflicts with the loop over antidiag_conflicts forgotten.
total_conflicts_diag_only(S) == SumPairs(S.diag_conflicts, 0, 0)

\* MinConflictsBoard.total_conflicts
total_conflicts(S) ==
    SumPairs(S.antidiag_conflicts, 0, SumPairs(S.diag_conflicts, 0, 0))

\* MinConflictsBoard.swap_queens with the tuple swap forgotten:
\* board[row1] = board[row2]; board[row2] = board[row1].
swap_queens_overwrite(S, row1, row2) ==
    IF row1 = row2 THEN S
    ELSE LET col1 == S.board[row1]
             col2 == S.board[row2]
             d1 == Decr(Decr(S.diag_conflicts, row1 - col1 + n - 1), row2 - col2 + n - 1)
             a1 == Decr(Decr(S.antidiag_conflicts, row1 + col1), row2 + col2)
         IN  BoardState([S.board EXCEPT ![row1] = col2],
                        Incr(Incr(d1, row1 - col2 + n - 1), row2 - col1 + n - 1),
                        Incr(Incr(a1, row1 + col2), row2 + col1))

\* MinConflictsBoard.swap_queens with the removal of the second queen from its
\* anti-diagonal forgotten.
swap_queens_leak(S, row1, row2) ==
    IF row1 = row2 THEN S
    ELSE LET col1 == S.board[row1]
             col2 == S.board[row2]
             d1 == Decr(Decr(S.diag_conflicts, row1 - col1 + n - 1), row2 - col2 + n - 1)
             a1 == Decr(S.antidiag_conflicts, row1 + col1)
         IN  BoardState([S.board EXCEPT ![row1] = col2, ![row2] = col1],
                        Incr(Incr(d1, row1 - col2 + n - 1), row2 - col1 + n - 1),
                        Incr(Incr(a1, row1 + col2), row2 + col1))

\* MinConflictsBoard.swap_queens
swap_queens(S, row1, row2) ==
    IF row1 = row2 THEN S
    ELSE LET col1 == S.board[row1]
             col2 == S.board[row2]
             \* Remove both queens
             d1 == Decr(Decr(S.diag_conflicts, row1 - col1 + n - 1), row2 - col2 + n - 1)
             a1 == Decr(Decr(S.antidiag_conflicts, row1 + col1), row2 + col2)
             \* Swap
             b1 == [S.board EXCEPT ![row1] = col2, ![row2] = col1]
             \* Add back in new positions
             d2 == Incr(Incr(d1, row1 - col2 + n - 1), row2 - col1 + n - 1)
             a2 == Incr(Incr(a1, row1 + col2), row2 + col1)
         IN  BoardState(b1, d2, a2)

----------------------------------------------------------------------------
\* The naive reference scorers

\* count_conflicts
count_conflicts(b, k) ==
    Cardinality({p \in Rows(k) \X Rows(k) :
                    p[1] < p[2] /\ Abs(b[p[1]] - b[p[2]]) = Abs(p[1] - p[2])})

\* count_conflicts_for_queen
count_conflicts_for_queen(b, r, k) ==
    Cardinality({o \in Rows(k) : o # r /\ Abs(b[r] - b[o]) = Abs(r - o)})

----------------------------------------------------------------------------
\* History of swap_queens calls on the current board object: the last call
\* and, when the call before it had the same rows, that one too, each with the
\* state the call found.

Call(S, row1, row2) == [row1 |-> row1, row2 |-> row2, before |-> S]

Record(S, row1, row2) ==
    IF /\ Len(calls) >= 1
       /\ calls[Len(calls)].row1 = row1
       /\ calls[Len(calls)].row2 = row2
    THEN <<calls[Len(calls)], Call(S, row1, row2)>>
    ELSE <<Call(S, row1, row2)>>

\* board_state.swap_queens(row1, row2) as a step on the board variables.
DoSwap(row1, row2) ==
    LET T == swap_queens(Self, row1, row2)
    IN  /\ board' = T.board
        /\ diag_conflicts' = T.diag_conflicts
        /\ antidiag_conflicts' = T.antidiag_conflicts
        /\ calls' = Record(Self, row1, row2)

\* board_state = MinConflictsBoard(k) as a step on the board variables.
DoConstruct(k) ==
    \E perm \in permutation[k] :
        LET T == MinConflictsBoard(k, perm)
        IN  /\ board' = T.board
            /\ diag_conflicts' = T.diag_conflicts
            /\ antidiag_conflicts' = T.antidiag_conflicts
            /\ calls' = <<>>

----------------------------------------------------------------------------
\* solve_min_conflicts

NoResult == [board |-> None, iterations |-> 0, restarts |-> 0, success |-> FALSE]

\* The scan without its elif branch: ties are not appended.
RECURSIVE ScanQueens_no_ties(_, _, _, _)
ScanQueens_no_ties(S, r, max_conf, queens) ==
    IF r >= n THEN queens
    ELSE LET conf == conflicts_at(S, r, S.board[r])
         IN  IF conf > max_conf
             THEN ScanQueens_no_ties(S, r + 1, conf, Append0(EmptyList, r))
             ELSE ScanQueens_no_ties(S, r + 1, max_conf, queens)

\* The scan "for row in range(n)" of solve_min_conflicts from row r on, with
\* the running max_conf and most_conflicted_queens.
RECURSIVE ScanQueens(_, _, _, _)
ScanQueens(S, r, max_conf, queens) ==
    IF r >= n THEN queens
    ELSE LET conf == conflicts_at(S, r, S.board[r])
         IN  IF conf > max_conf THEN ScanQueens(S, r + 1, conf, Append0(EmptyList, r))
             ELSE IF conf = max_conf /\ conf > 0
                  THEN ScanQueens(S, r + 1, max_conf, Append0(queens, r))
                  ELSE ScanQueens(S, r + 1, max_conf, queens)

most_conflicted_queens(S) == ScanQueens(S, 0, 0, EmptyList)

\* random.choice(list): any element.
Choices(list) == {list[i] : i \in DOMAIN list}

\* NextIteration with the inner loop running one body too many.
NextIteration_off_by_one ==
    IF iteration + 1 <= max_iterations
    THEN /\ iteration' = iteration + 1
         /\ restart' = restart
         /\ pc' = "check"
    ELSE /\ iteration' = iteration
         /\ restart' = restart + 1
         /\ pc' = "restart"

\* The end of one body of the inner loop: the next iteration, or, when
\* range(max_iterations) is used up, the next restart.
NextIteration ==
    IF iteration + 1 < max_iterations
    THEN /\ iteration' = iteration + 1
         /\ restart' = restart
         /\ pc' = "check"
    ELSE /\ iteration' = iteration
         /\ restart' = restart + 1
         /\ pc' = "restart"

\* The success tuple with the 0-based loop variables returned as they are.
ReturnSuccess_zero_based ==
    [board |-> Some(board), iterations |-> iteration, restarts |-> restart,
     success |-> TRUE]

\* return np.array(board_state.board), iteration + 1, restart + 1, True
ReturnSuccess ==
    [board |-> Some(board), iterations |-> iteration + 1, restarts |-> restart + 1,
     success |-> TRUE]

\* The failure tuple carrying the last board tried.
ReturnFailed_with_board ==
    [board |-> Some(board), iterations |-> max_iterations * max_restarts,
     restarts |-> max_restarts, success |-> FALSE]

\* return None, max_iterations * max_restarts, max_restarts, False
ReturnFailed ==
    [board |-> None, iterations |-> max_iterations * max_restarts,
     restarts |-> max_restarts, success |-> FALSE]

\* for restart in range(max_restarts): board_state = MinConflictsBoard(n)
StartRestart ==
    /\ pc = "restart"
    /\ restart < max_restarts
    /\ DoConstruct(n)
    /\ iteration' = 0
    /\ pc' = "check"
    /\ UNCHANGED <<n, max_iterations, max_restarts, restart, row, other_row,
                   other_col, current_col, min_conflicts, best_swaps, result,
                   loop_iterations>>

\* The head of the inner loop body: if board_state.total_conflicts() == 0: return
CheckSolution ==
    /\ pc = "check"
    /\ loop_iterations' = loop_iterations + 1
    /\ IF total_conflicts(Self) = 0
       THEN /\ result' = ReturnSuccess
            /\ pc' = "done"
       ELSE /\ result' = result
            /\ pc' = "select"
    /\ UNCHANGED <<n, max_iterations, max_restarts, board, diag_conflicts,
                   antidiag_conflicts, restart, iteration, row, other_row,
                   other_col, current_col, min_conflicts, best_swaps, calls>>

\* The scan for the most conflicted queens, the safeguard "continue", the
\* random.choice and the entry of get_best_swap(board_state, row).
SelectQueen ==
    /\ pc = "select"
    /\ LET queens == most_conflicted_queens(Self)
       IN  IF DOMAIN queens = {}
           THEN /\ NextIteration
                /\ UNCHANGED <<row, other_row, current_col, min_conflicts, best_swaps>>
           ELSE /\ \E r \in Choices(queens) :
                     /\ row' = r
                     /\ current_col' = board[r]
                /\ min_conflicts' = Infinity
                /\ best_swaps' = EmptyList
                /\ other_row' = 0
                /\ pc' = "probe"
                /\ UNCHANGED <<restart, iteration>>
    /\ UNCHANGED <<n, max_iterations, max_restarts, board, diag_conflicts,
                   antidiag_conflicts, other_col, result, calls, loop_iterations>>

\* get_best_swap, loop body, first half: other_col = board[other_row];
\* swap_queens(row, other_row)
ProbeSwap ==
    /\ pc = "probe"
    /\ other_row < n
    /\ other_col' = board[other_row]
    /\ DoSwap(row, other_row)
    /\ pc' = "evaluate"
    /\ UNCHANGED <<n, max_iterations, max_restarts, restart, iteration, row,
                   other_row, current_col, min_conflicts, best_swaps, result,
                   loop_iterations>>

\* get_best_swap, loop body, second half: count the conflicts of the two moved
\* queens, update min_conflicts / best_swaps, swap back.
EvaluateSwap ==
    /\ pc = "evaluate"
    /\ LET conflicts == conflicts_at(Self, row, other_col)
                        + conflicts_at(Self, other_row, current_col)
       IN  IF conflicts < min_conflicts
           THEN /\ min_conflicts' = conflicts
                /\ best_swaps' = Append0(EmptyList, other_row)
           ELSE IF conflicts = min_conflicts
                THEN /\ min_conflicts' = min_conflicts
                     /\ best_swaps' = Append0(best_swaps, other_row)
                ELSE UNCHANGED <<min_conflicts, best_swaps>>
    /\ DoSwap(row, other_row)
    /\ other_row' = other_row + 1
    /\ pc' = IF other_row + 1 < n THEN "probe" ELSE "commit"
    /\ UNCHANGED <<n, max_iterations, max_restarts, restart, iteration, row,
                   other_col, current_col, result, loop_iterations>>

\* The locals of get_best_swap outside a call of it.
NoLocals ==
    /\ other_row = 0
    /\ other_col = 0
    /\ current_col = 0
    /\ min_conflicts = Infinity
    /\ best_swaps = EmptyList

\* return random.choice(best_swaps), which ends the call of get_best_swap and
\* its locals; board_state.swap_queens(row, best_swap_row)
CommitSwap ==
    /\ pc = "commit"
    /\ \E best_swap_row \in Choices(best_swaps) : DoSwap(row, best_swap_row)
    /\ other_row' = 0
    /\ other_col' = 0
    /\ current_col' = 0
    /\ min_conflicts' = Infinity
    /\ best_swaps' = EmptyList
    /\ NextIteration
    /\ UNCHANGED <<n, max_iterations, max_restarts, row, result, loop_iterations>>

\* Failed after all restarts
ReturnFailure ==
    /\ pc = "restart"
    /\ restart >= max_restarts
    /\ result' = ReturnFailed
    /\ pc' = "done"
    /\ UNCHANGED <<n, max_iterations, max_restarts, board, diag_conflicts,
                   antidiag_conflicts, restart, iteration, row, other_row,
                   other_col, current_col, min_conflicts, best_swaps, calls,
                   loop_iterations>>

\* A caller that builds a board and calls swap_queens with any valid rows.
SwapCall ==
    /\ pc = "board"
    /\ \E row1, row2 \in Rows(n) : DoSwap(row1, row2)
    /\ UNCHANGED <<n, max_iterations, max_restarts, restart, iteration, pc, row,
                   other_row, other_col, current_col, min_conflicts, best_swaps,
                   result, loop_iterations>>

----------------------------------------------------------------------------
\* Specifications

Locals ==
    /\ restart = 0
    /\ iteration = 0
    /\ row = 0
    /\ NoLocals
    /\ result = NoResult
    /\ calls = <<>>
    /\ loop_iterations = 0

\* A call solve_min_conflicts(n, max_iterations, max_restarts): no board yet.
InitSolve ==
    /\ n \in 0 .. MaxN
    /\ max_iterations \in 1 .. MaxIterations
    /\ max_restarts \in 1 .. MaxRestarts
    /\ board = EmptyList
    /\ diag_conflicts = EmptyList
    /\ antidiag_conflicts = EmptyList
    /\ pc = "restart"
    /\ Locals

\* A board just built by MinConflictsBoard(n), n >= 1, outside any solve call.
InitBoard ==
    /\ n \in 1 .. MaxN
    /\ max_iterations = 1
    /\ max_restarts = 1
    /\ \E perm \in permutation[n] :
          LET T == MinConflictsBoard(n, perm)
          IN  /\ board = T.board
              /\ diag_conflicts = T.diag_conflicts
              /\ antidiag_conflicts = T.antidiag_conflicts
    /\ pc = "board"
    /\ Locals

Init == InitSolve \/ InitBoard

SolveNext ==
    \/ StartRestart
    \/ CheckSolution
    \/ SelectQueen
    \/ ProbeSwap
    \/ EvaluateSwap
    \/ CommitSwap
    \/ ReturnFailure

Next == SolveNext \/ SwapCall

Spec == Init /\ [][Next]_vars

\* One call of solve_min_conflicts running to its end: the code is sequential
\* and every step of it is taken.
FairSpec == InitSolve /\ [][SolveNext]_vars /\ WF_vars(SolveNext)

----------------------------------------------------------------------------
\* Properties

\* A board object exists: always for the swap_queens caller, and in
\* solve_min_conflicts from the first MinConflictsBoard(n) on.
Built == pc # "restart" \/ restart > 0

Returned == pc = "done"

IsPermutation(b, k) ==
    /\ DOMAIN b = Rows(k)
    /\ {b[r] : r \in Rows(k)} = Rows(k)

\* C1. Counter consistency: for n >= 1, on a constructed board and after any
\* sequence of swap_queens calls, diag_conflicts[d] is the number of rows r with
\* r - board[r] + n - 1 = d and antidiag_conflicts[a] the number of rows r with
\* r + board[r] = a, for every index 0..2n-2.
CounterConsistency ==
    (Built /\ n >= 1) =>
        /\ DOMAIN diag_conflicts = Indices(n)
        /\ DOMAIN antidiag_conflicts = Indices(n)
        /\ \A d \in Indices(n) :
              diag_conflicts[d] = Cardinality({r \in Rows(n) : r - board[r] + n - 1 = d})
        /\ \A a \in Indices(n) :
              antidiag_conflicts[a] = Cardinality({r \in Rows(n) : r + board[r] = a})

\* An effective swap has moved two queens onto a diagonal that now holds
\* three queens, off two different anti-diagonals.
CounterConsistencyWitness ==
    /\ pc = "board"
    /\ Len(calls) = 1
    /\ calls[1].row1 # calls[1].row2
    /\ \E d \in Indices(n) :
          /\ diag_conflicts[d] >= 3
          /\ calls[1].before.diag_conflicts[d] = diag_conflicts[d] - 2
    /\ calls[1].before.antidiag_conflicts # antidiag_conflicts

\* C2. Permutation invariant: for n >= 1 the board is a permutation of 0..n-1
\* after construction and after every swap_queens call, the probe swaps and the
\* committed swaps of solve_min_conflicts included.
PermutationInvariant == (Built /\ n >= 1) => IsPermutation(board, n)

\* Inside get_best_swap, between an effective probe swap and its revert, in
\* the second iteration of a restart (after a committed swap).
PermutationWitness ==
    /\ pc = "evaluate"
    /\ row # other_row
    /\ iteration >= 1
    /\ n >= 3

\* C3. Swap involution: when the last two swap_queens calls on a board had the
\* same rows (row1 = row2 included), board and both arrays are what they were
\* before the first of the two.
SwapInvolution ==
    (/\ Len(calls) = 2
     /\ calls[1].row1 = calls[2].row1
     /\ calls[1].row2 = calls[2].row2)
        => Self = calls[1].before

\* The same effective swap was called twice: the first call changed the board
\* and both arrays, the second restored them.
SwapInvolutionWitness ==
    /\ pc = "board"
    /\ Len(calls) = 2
    /\ calls[1].row1 = calls[2].row1
    /\ calls[1].row2 = calls[2].row2
    /\ calls[1].row1 # calls[1].row2
    /\ calls[2].before.board # board
    /\ calls[2].before.diag_conflicts # diag_conflicts
    /\ calls[2].before.antidiag_conflicts # antidiag_conflicts

\* C4. Total-conflicts agreement: on every board, total_conflicts() equals the
\* naive count_conflicts(board, n).
TotalConflictsAgreement ==
    Built => total_conflicts(Self) = count_conflicts(board, n)

\* After a swap, a board with three queens on one diagonal (three attacking
\* pairs from a single bucket).
TotalConflictsWitness ==
    /\ Built
    /\ Len(calls) >= 1
    /\ calls[Len(calls)].before.board # board
    /\ \E d \in Indices(n) : diag_conflicts[d] = 3
    /\ total_conflicts(Self) >= 3

\* C5. Correctness on success: a result with success = True carries a board
\* that is a permutation of 0..n-1 with no two queens on a common diagonal or
\* anti-diagonal.
CorrectOnSuccess ==
    (Returned /\ result.success) =>
        \E b \in permutation[n] :
            /\ result.board = Some(b)
            /\ \A i, j \in Rows(n) :
                  i # j => /\ i - b[i] # j - b[j]
                           /\ i + b[i] # j + b[j]

\* Success on a 4x4 board reached by a committed swap.
CorrectOnSuccessWitness ==
    /\ Returned
    /\ result.success
    /\ n = 4
    /\ Len(calls) >= 1
    /\ calls[Len(calls)].before.board # board

\* Steps of one body of the inner loop (check, select, a probe and an
\* evaluation per row, commit) and of one restart (construction and bodies).
IterationSteps == 2 * n + 3
RestartSteps == 1 + max_iterations * IterationSteps

\* An upper bound on the steps solve_min_conflicts still takes before it
\* returns.
Rank ==
    LET later == (max_iterations - iteration - 1) * IterationSteps
                 + (max_restarts - restart - 1) * RestartSteps + 1
    IN  CASE pc = "done" -> 0
          [] pc = "restart" -> (max_restarts - restart) * RestartSteps + 1
          [] pc = "check" -> IterationSteps + later
          [] pc = "select" -> IterationSteps - 1 + later
          [] pc = "probe" -> 2 * (n - other_row) + 1 + later
          [] pc = "evaluate" -> 2 * (n - other_row) + later
          [] pc = "commit" -> 1 + later

\* C6. Termination: for n >= 1 and positive budgets the call returns, whatever
\* the random choices, after at most max_restarts * max_iterations bodies of
\* the inner loop, and for n = 2 and n = 3 it returns success = False with the
\* whole budget used.  Until the call has returned a step is enabled and every
\* step lowers Rank, a natural number: under the fairness of FairSpec the call
\* returns within Rank steps.
Termination ==
    /\ [](Returned \/ ENABLED SolveNext)
    /\ [](Rank >= 0)
    /\ [][Rank' < Rank]_vars
    /\ [](n >= 1 => loop_iterations <= max_restarts * max_iterations)
    /\ []((Returned /\ n \in {2, 3}) =>
            /\ ~result.success
            /\ loop_iterations = max_restarts * max_iterations)

\* n = 3 with two restarts of two iterations each, all used up.
TerminationWitness ==
    /\ Returned
    /\ n = 3
    /\ max_restarts = 2
    /\ max_iterations = 2
    /\ ~result.success
    /\ loop_iterations = 4

\* C7. Exhausted outcome: when every restart ended without the zero-conflict
\* check succeeding, the call returns (None, max_iterations * max_restarts,
\* max_restarts, False); a failing result never carries a board.
ExhaustedOutcome ==
    Returned =>
        /\ result.success <=> restart < max_restarts
        /\ ~result.success =>
              /\ result.board = None
              /\ result.iterations = max_iterations * max_restarts
              /\ result.restarts = max_restarts
              /\ loop_iterations = max_iterations * max_restarts

\* A failure on a satisfiable size: n = 4, one restart of two iterations.
ExhaustedOutcomeWitness ==
    /\ Returned
    /\ ~result.success
    /\ n = 4
    /\ max_restarts = 1
    /\ max_iterations = 2

\* C8. On success the returned iteration count is the number of iterations
\* consumed over all restarts of the call, and the restart count is the 1-based
\* number of the successful restart.
CumulativeIterations ==
    (Returned /\ result.success) =>
        /\ result.iterations = loop_iterations
        /\ result.restarts = restart + 1

\* C9. InvalidSize: with n < 1 the call does no work and returns no result.
InvalidSizeRejected ==
    (n < 1) => (~Built /\ ~Returned /\ loop_iterations = 0)

\* C10. For n = 1 the call returns at once: success, board [0], one iteration,
\* one restart, no swap.
SingleQueen ==
    (n = 1 /\ pc \notin {"restart", "board"}) =>
        /\ pc \in {"check", "done"}
        /\ pc = "check" => (restart = 0 /\ iteration = 0 /\ total_conflicts(Self) = 0)
        /\ calls = <<>>
        /\ Returned =>
              /\ result = [board |-> Some([r \in {0} |-> 0]), iterations |-> 1,
                           restarts |-> 1, success |-> TRUE]
              /\ loop_iterations = 1

\* n = 1 returned under the largest budgets.
SingleQueenWitness ==
    /\ Returned
    /\ n = 1
    /\ max_iterations = MaxIterations
    /\ max_restarts = MaxRestarts
    /\ result.success

\* The two solutions of the 4x4 board.
Solution1 == [r \in Rows(4) |-> CASE r = 0 -> 1 [] r = 1 -> 3 [] r = 2 -> 0 [] r = 3 -> 2]
Solution2 == [r \in Rows(4) |-> CASE r = 0 -> 2 [] r = 1 -> 0 [] r = 2 -> 3 [] r = 3 -> 1]

\* A 4x4 board on which the search can stay for ever: row 2 is among the most
\* conflicted queens and swapping it with itself is among its best swaps.
StuckBoard == [r \in Rows(4) |-> CASE r = 0 -> 0 [] r = 1 -> 2 [] r = 2 -> 3 [] r = 3 -> 1]

\* C11 as stated: for n = 4 every call returns success = True with one of the
\* two solutions, whatever the random permutation and tie-breaks.
FourQueensAlwaysSolved ==
    (Returned /\ n = 4) =>
        /\ result.success
        /\ result.board \in {Some(Solution1), Some(Solution2)}

\* C11 as amended: for n = 4 a call that returns success = True returns
\* [1,3,0,2] or [2,0,3,1]; success is not guaranteed, since on the board
\* [0,2,3,1] row 2 can be selected and row 2 itself can be returned by
\* get_best_swap, which leaves the board as it is, for any budgets.
FourQueensSolvedOnSuccess ==
    /\ (Returned /\ n = 4 /\ result.success) =>
          result.board \in {Some(Solution1), Some(Solution2)}
    /\ (n = 4 /\ pc = "select" /\ board = StuckBoard) =>
          2 \in Choices(most_conflicted_queens(Self))
    /\ (n = 4 /\ pc = "commit" /\ board = StuckBoard /\ row = 2) =>
          2 \in Choices(best_swaps)

\* A call on the 4x4 board that found [2,0,3,1] in its second restart.
FourQueensWitness ==
    /\ Returned
    /\ n = 4
    /\ result.success
    /\ result.board = Some(Solution2)
    /\ result.restarts = 2

\* C12. Recheck after commit: a committed swap that brings the board to zero
\* conflicts, the one of the last iteration of a restart included, makes the
\* call return that board with success = True; the board is not discarded by
\* the next restart or by the report of exhaustion.
RecheckAfterCommit ==
    (/\ pc \in {"restart", "done"}
     /\ restart >= 1
     /\ total_conflicts(Self) = 0)
        => (Returned /\ result.success /\ result.board = Some(board))

\* C13. Partner candidates exclude the selected row: get_best_swap probes only
\* rows other than the selected one, and for n >= 2 the committed swap
\* exchanges two distinct rows.
PartnerExcludesRow ==
    n >= 2 =>
        /\ pc = "evaluate" => other_row # row
        /\ (/\ pc \in {"check", "restart"}
            /\ Len(calls) >= 1) => calls[Len(calls)].row1 # calls[Len(calls)].row2

\* The maximum of the per-queen conflict counts over the rows.
MaxConflicts(S) ==
    CHOOSE m \in 0 .. 2 * n :
        /\ \A r \in Rows(n) : conflicts_at(S, r, S.board[r]) <= m
        /\ \E r \in Rows(n) : conflicts_at(S, r, S.board[r]) = m

\* C14. Per-queen conflict count: for every row r of a board,
\* conflicts_at(r, board[r]) is (diag - 1) + (antidiag - 1) for the two buckets
\* of the queen, equals count_conflicts_for_queen(board, r, n), and the clamp
\* at 0 does not change it.
PerQueenConflicts ==
    Built =>
        \A r \in Rows(n) :
            LET d == diag_conflicts[r - board[r] + n - 1]
                a == antidiag_conflicts[r + board[r]]
            IN  /\ d >= 1
                /\ a >= 1
                /\ conflicts_at(Self, r, board[r]) = (d - 1) + (a - 1)
                /\ conflicts_at(Self, r, board[r]) = count_conflicts_for_queen(board, r, n)

\* After a swap, a queen attacked along its diagonal and along its
\* anti-diagonal, next to a queen with fewer conflicts.
PerQueenConflictsWitness ==
    /\ Built
    /\ Len(calls) >= 1
    /\ calls[Len(calls)].before.board # board
    /\ \E r \in Rows(n) :
          /\ diag_conflicts[r - board[r] + n - 1] >= 2
          /\ antidiag_conflicts[r + board[r]] >= 2
    /\ \E r \in Rows(n) : conflicts_at(Self, r, board[r]) < MaxConflicts(Self)

\* C15. Most-conflicted selection: when an iteration reaches move selection,
\* the candidates are exactly the rows whose per-queen conflict count is the
\* maximum over all rows, and the row handed to get_best_swap is one of them.
MostConflictedSelection ==
    /\ pc = "select" =>
          Choices(most_conflicted_queens(Self)) =
              {r \in Rows(n) : conflicts_at(Self, r, board[r]) = MaxConflicts(Self)}
    /\ pc \in {"probe", "commit"} =>
          conflicts_at(Self, row, board[row]) = MaxConflicts(Self)

\* get_best_swap entered with a row that is not the first of the rows of
\* maximal conflict count, while another row has fewer conflicts.
MostConflictedWitness ==
    /\ pc = "probe"
    /\ other_row = 0
    /\ iteration >= 1
    /\ \E r \in Rows(n) :
          /\ r < row
          /\ conflicts_at(Self, r, board[r]) = MaxConflicts(Self)
    /\ \E r \in Rows(n) : conflicts_at(Self, r, board[r]) < MaxConflicts(Self)

\* C16. Defensive branch unreachable: on every board total_conflicts() is 0
\* exactly when every row's per-queen conflict count is 0, so at move selection
\* (total_conflicts() > 0) most_conflicted_queens is never empty.
DefensiveBranchUnreachable ==
    Built =>
        /\ total_conflicts(Self) = 0 <=>
              \A r \in Rows(n) : conflicts_at(Self, r, board[r]) = 0
        /\ pc = "select" =>
              /\ total_conflicts(Self) > 0
              /\ DOMAIN most_conflicted_queens(Self) # {}

\* Move selection, after a committed swap, on a board with a single attacking
\* pair.
DefensiveBranchWitness ==
    /\ pc = "select"
    /\ iteration >= 1
    /\ total_conflicts(Self) = 1
    /\ Cardinality(DOMAIN most_conflicted_queens(Self)) = 2

====
